---- MODULE Spec2Model ----
(***************************************************************************)
(* Model of bq_utils/bigquery_description_manager.py:                      *)
(* BigQueryDescriptionManager copies field descriptions from a source      *)
(* table (copy mode) or from a csv file (upload mode) onto a target table. *)
(*                                                                         *)
(* A SchemaField is the record                                             *)
(*   [name, field_type, mode, description, fields]                         *)
(* and a schema is a sequence of SchemaFields.  Python's None is the       *)
(* reserved value None below; a dict is a function whose DOMAIN is its key *)
(* set.  Schemas are BigQuery schemas: sibling names are unique and no     *)
(* name contains the path separator.                                       *)
(***************************************************************************)
EXTENDS Integers, Sequences, FiniteSets, TLC

VARIABLES
    store,          \* the tables behind bq_client: table id -> [exists, schema]
    csv,            \* the file at csv_path: [exists, rows]
    calls,          \* the bq_client calls made so far, in order
    pc,             \* invocation -> its position in the code
    mode,           \* invocation -> args.mode
    source_id,      \* invocation -> args.source_table_id
    source_table,   \* invocation -> source_table.schema (line 31)
    descriptions,   \* invocation -> the descriptions dict
    target_schema,  \* invocation -> target_table.schema as fetched (line 43)
    target_table,   \* invocation -> target_table after line 44
    error           \* invocation -> the exception that ended it

vars == <<store, csv, calls, pc, mode, source_id, source_table, descriptions,
          target_schema, target_table, error>>

----------------------------------------------------------------------------
(* Bounds of the model *)

\* fields (at all depths) of a target schema
MaxNodes == 2
\* fields (at all depths) of a source schema
MaxSrcNodes == 2
\* rows of the csv file
MaxRows == 2
\* fields of a schema when two invocations run concurrently
MaxConcNodes == 1
\* rows of the csv file when two invocations run concurrently
MaxConcRows == 1

----------------------------------------------------------------------------
(* Values *)

None == "None"

Names == {"a", "b"}

SOURCE == "src"
TARGET == "tgt"

Truthy(d) == d # None /\ d # ""

\* the path without its prefix
Join_no_prefix(prefix, name) == name

\* '{}.{}'.format(prefix, name)
Join(prefix, name) == prefix \o "." \o name

SchemaField(nm, d, kids) ==
    [name |-> nm,
     field_type |-> IF kids = <<>> THEN "STRING" ELSE "RECORD",
     mode |-> IF kids = <<>> THEN "NULLABLE" ELSE "REPEATED",
     description |-> d,
     fields |-> kids]

TopNames(schema) == {schema[i].name : i \in DOMAIN schema}

\* the schemas of exactly n fields with descriptions from D
RECURSIVE SchemasOfSize(_, _)
SchemasOfSize(n, D) ==
    IF n = 0 THEN {<<>>}
    ELSE UNION {
           UNION {
             {<<SchemaField(nm, d, kids)>> \o rest :
                 nm \in Names \ TopNames(rest), d \in D}
             : kids \in SchemasOfSize(k, D), rest \in SchemasOfSize(n - 1 - k, D)}
           : k \in 0..(n - 1)}

SchemasUpTo(n, D) == UNION {SchemasOfSize(k, D) : k \in 0..n}

----------------------------------------------------------------------------
(* dict operations *)

EmptyDict == [k \in {} |-> None]

\* d[key] = value
DictSet(d, key, value) ==
    [k \in DOMAIN d \cup {key} |-> IF k = key THEN value ELSE d[k]]

----------------------------------------------------------------------------
(* _get_descriptions_from_schema, lines 49-62 *)

\* [(column.name, column) for column in schema]
TopLevelEntries(schema) ==
    [i \in DOMAIN schema |-> <<schema[i].name, schema[i]>>]

\* nested fields keyed by their own name
NestedEntries_unqualified(field) ==
    [i \in DOMAIN field[2].fields |->
        <<field[2].fields[i].name, field[2].fields[i]>>]

\* [('{}.{}'.format(field[0], nested.name), nested) for nested in field[1].fields]
NestedEntries(field) ==
    [i \in DOMAIN field[2].fields |->
        <<Join(field[1], field[2].fields[i].name), field[2].fields[i]>>]

\* the while loop: pop the last entry, record it, push its nested fields
RECURSIVE ProcessFields(_, _)
ProcessFields(fields_to_process, descs) ==
    IF fields_to_process = <<>> THEN descs
    ELSE LET field == fields_to_process[Len(fields_to_process)]
             rest  == SubSeq(fields_to_process, 1, Len(fields_to_process) - 1)
         IN  ProcessFields(rest \o NestedEntries(field),
                           DictSet(descs, field[1], field[2].description))

_get_descriptions_from_schema(schema) ==
    ProcessFields(TopLevelEntries(schema), EmptyDict)

----------------------------------------------------------------------------
(* _update_field and _get_new_schema, lines 64-90 *)

\* SchemaField.to_api_repr: a dict; 'fields' is present for a RECORD only
RECURSIVE ToApiRepr(_)
ToApiRepr(f) ==
    IF f.field_type = "RECORD"
    THEN [name |-> f.name, type |-> f.field_type, mode |-> f.mode,
          description |-> f.description,
          fields |-> [i \in DOMAIN f.fields |-> ToApiRepr(f.fields[i])]]
    ELSE [name |-> f.name, type |-> f.field_type, mode |-> f.mode,
          description |-> f.description]

\* SchemaField.from_api_repr: 'fields' defaults to ()
RECURSIVE FromApiRepr(_)
FromApiRepr(r) ==
    [name |-> r.name, field_type |-> r.type, mode |-> r.mode,
     description |-> r.description,
     fields |-> IF "fields" \in DOMAIN r
                THEN [i \in DOMAIN r.fields |-> FromApiRepr(r.fields[i])]
                ELSE <<>>]

\* the top-level field only, no recursion into 'fields'
_update_field_top_only(field, name, descs) ==
    IF name \in DOMAIN descs /\ Truthy(descs[name])
    THEN [field EXCEPT !.description = descs[name]]
    ELSE field

\* `if name in descriptions`, whatever the value
RECURSIVE _update_field_any_value(_, _, _)
_update_field_any_value(field, name, descs) ==
    LET described ==
            IF name \in DOMAIN descs
            THEN [field EXCEPT !.description = descs[name]]
            ELSE field
    IN  IF "fields" \in DOMAIN described
        THEN [described EXCEPT !.fields =
                [i \in DOMAIN described.fields |->
                    _update_field_any_value(described.fields[i],
                        Join(name, described.fields[i].name), descs)]]
        ELSE described

\* field['description'] += descriptions[name]
RECURSIVE _update_field_appending(_, _, _)
_update_field_appending(field, name, descs) ==
    LET described ==
            IF name \in DOMAIN descs /\ Truthy(descs[name])
            THEN [field EXCEPT !.description =
                    IF Truthy(@) THEN @ \o descs[name] ELSE descs[name]]
            ELSE field
    IN  IF "fields" \in DOMAIN described
        THEN [described EXCEPT !.fields =
                [i \in DOMAIN described.fields |->
                    _update_field_appending(described.fields[i],
                        Join(name, described.fields[i].name), descs)]]
        ELSE described

\* the dict `field` after _update_field(field, name, descriptions)
RECURSIVE _update_field(_, _, _)
_update_field(field, name, descs) ==
    LET described ==
            IF name \in DOMAIN descs /\ Truthy(descs[name])
            THEN [field EXCEPT !.description = descs[name]]
            ELSE field
    IN  IF "fields" \in DOMAIN described
        THEN [described EXCEPT !.fields =
                [i \in DOMAIN described.fields |->
                    _update_field(described.fields[i],
                                Join(name, described.fields[i].name), descs)]]
        ELSE described

\* only the fields the descriptions name are rebuilt
_get_new_schema_described(schema, descs) ==
    LET kept == SelectSeq(schema, LAMBDA f : f.name \in DOMAIN descs)
        temp_schema == [i \in DOMAIN kept |-> ToApiRepr(kept[i])]
    IN  [i \in DOMAIN temp_schema |-> FromApiRepr(temp_schema[i])]

_get_new_schema(schema, descs) ==
    LET temp_schema == [i \in DOMAIN schema |-> ToApiRepr(schema[i])]
        updated == [i \in DOMAIN temp_schema |->
                      _update_field(temp_schema[i], temp_schema[i].name, descs)]
    IN  [i \in DOMAIN updated |-> FromApiRepr(updated[i])]

----------------------------------------------------------------------------
(* upload_fields_descriptions_from_csv, line 100 *)

\* {row[0]: row[1] for row in csv_reader}: a later row replaces an earlier one
RECURSIVE DictOfRows(_)
DictOfRows(rows) ==
    IF rows = <<>> THEN EmptyDict
    ELSE LET n == Len(rows)
         IN  DictSet(DictOfRows(SubSeq(rows, 1, n - 1)), rows[n][1], rows[n][2])

\* row[1] raises IndexError on a row of fewer than two columns
Malformed(rows) == \E i \in DOMAIN rows : Len(rows[i]) < 2

----------------------------------------------------------------------------
(* The bq_client and the csv file *)

TargetDescs == {None, "o"}
SourceDescs == {None, "n"}
CsvPaths == {"b", "a.b", "z"}
CsvValues == {"", "n"}

\* a row of two columns, or a row of one
CsvRows == {<<path, d>> : path \in CsvPaths, d \in CsvValues} \cup {<<"a">>}

RECURSIVE SeqsUpTo(_, _)
SeqsUpTo(S, n) ==
    IF n = 0 THEN {<<>>}
    ELSE LET shorter == SeqsUpTo(S, n - 1)
         IN  shorter \cup {Append(q, x) : q \in {r \in shorter : Len(r) = n - 1}, x \in S}

NoTable == [exists |-> FALSE, schema |-> <<>>]
Table(schema) == [exists |-> TRUE, schema |-> schema]
Tables(schemas) == {NoTable} \cup {Table(t) : t \in schemas}

NoFile == [exists |-> FALSE, rows |-> <<>>]
File(rows) == [exists |-> TRUE, rows |-> rows]
Files(n) == {NoFile} \cup {File(r) : r \in SeqsUpTo(CsvRows, n)}

\* bq_client.get_table(table_id), as the mock records it
GetTableCall(p, id) ==
    [proc |-> p, op |-> "get_table", table |-> id, ok |-> store[id].exists,
     schema |-> <<>>, fields |-> <<>>]

\* bq_client.update_table(table, fields), as the mock records it
UpdateTableCall(p, id, table, fields, succeeded) ==
    [proc |-> p, op |-> "update_table", table |-> id, ok |-> succeeded,
     schema |-> table.schema, fields |-> fields]

\* the stored table after update_table(table, fields): only the listed
\* attributes are replaced
Updated(stored, table, fields) ==
    [stored EXCEPT !.schema =
        IF \E i \in DOMAIN fields : fields[i] = "schema"
        THEN table.schema ELSE stored.schema]

----------------------------------------------------------------------------
(* The invocations *)

Procs == DOMAIN pc

Fail(p, exception) ==
    /\ pc' = [pc EXCEPT ![p] = "failed"]
    /\ error' = [error EXCEPT ![p] = exception]

\* a missing source is taken for a source without fields
copy_field_descriptions_lenient(p) ==
    /\ pc[p] = "start"
    /\ mode[p] = "copy"
    /\ calls' = Append(calls, GetTableCall(p, source_id[p]))
    /\ source_table' = [source_table EXCEPT ![p] = store[source_id[p]].schema]
    /\ descriptions' = [descriptions EXCEPT ![p] =
           _get_descriptions_from_schema(store[source_id[p]].schema)]
    /\ pc' = [pc EXCEPT ![p] = "update_table"]
    /\ UNCHANGED <<error, store, csv, mode, source_id, target_schema, target_table>>

\* lines 31-34: fetch the source and flatten its descriptions
copy_field_descriptions(p) ==
    /\ pc[p] = "start"
    /\ mode[p] = "copy"
    /\ calls' = Append(calls, GetTableCall(p, source_id[p]))
    /\ IF store[source_id[p]].exists
       THEN /\ source_table' = [source_table EXCEPT ![p] = store[source_id[p]].schema]
            /\ descriptions' = [descriptions EXCEPT ![p] =
                   _get_descriptions_from_schema(store[source_id[p]].schema)]
            /\ pc' = [pc EXCEPT ![p] = "update_table"]
            /\ UNCHANGED error
       ELSE /\ Fail(p, "NotFound")
            /\ UNCHANGED <<source_table, descriptions>>
    /\ UNCHANGED <<store, csv, mode, source_id, target_schema, target_table>>

\* lines 98-100: read the rows of the csv file into the dict
upload_fields_descriptions_from_csv(p) ==
    /\ pc[p] = "start"
    /\ mode[p] = "upload"
    /\ IF ~csv.exists
       THEN Fail(p, "FileNotFoundError") /\ UNCHANGED descriptions
       ELSE IF Malformed(csv.rows)
       THEN Fail(p, "IndexError") /\ UNCHANGED descriptions
       ELSE /\ descriptions' = [descriptions EXCEPT ![p] = DictOfRows(csv.rows)]
            /\ pc' = [pc EXCEPT ![p] = "update_table"]
            /\ UNCHANGED error
    /\ UNCHANGED <<store, csv, calls, mode, source_id, source_table,
                   target_schema, target_table>>

\* lines 43-44: fetch the target and give it the new schema
_update_table(p) ==
    /\ pc[p] = "update_table"
    /\ calls' = Append(calls, GetTableCall(p, TARGET))
    /\ IF store[TARGET].exists
       THEN /\ target_schema' = [target_schema EXCEPT ![p] = store[TARGET].schema]
            /\ target_table' = [target_table EXCEPT ![p] =
                   Table(_get_new_schema(store[TARGET].schema, descriptions[p]))]
            /\ pc' = [pc EXCEPT ![p] = "persist"]
            /\ UNCHANGED error
       ELSE /\ Fail(p, "NotFound")
            /\ UNCHANGED <<target_schema, target_table>>
    /\ UNCHANGED <<store, csv, mode, source_id, source_table, descriptions>>

\* bq_client.update_table(target_table, ['schema', 'description'])
persist_more_attributes(p) ==
    /\ pc[p] = "persist"
    /\ \E succeeded \in BOOLEAN :
         /\ calls' = Append(calls,
                UpdateTableCall(p, TARGET, target_table[p],
                                <<"schema", "description">>, succeeded))
         /\ IF succeeded
            THEN /\ store' = [store EXCEPT ![TARGET] =
                        Updated(store[TARGET], target_table[p],
                                <<"schema", "description">>)]
                 /\ pc' = [pc EXCEPT ![p] = "done"]
                 /\ UNCHANGED error
            ELSE /\ Fail(p, "PersistError")
                 /\ UNCHANGED store
    /\ UNCHANGED <<csv, mode, source_id, source_table, descriptions,
                   target_schema, target_table>>

\* the merge is applied to the table as stored when the update arrives
persist_onto_stored(p) ==
    /\ pc[p] = "persist"
    /\ \E succeeded \in BOOLEAN :
         /\ calls' = Append(calls,
                UpdateTableCall(p, TARGET, target_table[p], <<"schema">>, succeeded))
         /\ IF succeeded
            THEN /\ store' = [store EXCEPT ![TARGET] =
                        Table(_get_new_schema(store[TARGET].schema, descriptions[p]))]
                 /\ pc' = [pc EXCEPT ![p] = "done"]
                 /\ UNCHANGED error
            ELSE /\ Fail(p, "PersistError")
                 /\ UNCHANGED store
    /\ UNCHANGED <<csv, mode, source_id, source_table, descriptions,
                   target_schema, target_table>>

\* line 46: bq_client.update_table(target_table, ['schema'])
persist(p) ==
    /\ pc[p] = "persist"
    /\ \E succeeded \in BOOLEAN :
         /\ calls' = Append(calls,
                UpdateTableCall(p, TARGET, target_table[p], <<"schema">>, succeeded))
         /\ IF succeeded
            THEN /\ store' = [store EXCEPT ![TARGET] =
                        Updated(store[TARGET], target_table[p], <<"schema">>)]
                 /\ pc' = [pc EXCEPT ![p] = "done"]
                 /\ UNCHANGED error
            ELSE /\ Fail(p, "PersistError")
                 /\ UNCHANGED store
    /\ UNCHANGED <<csv, mode, source_id, source_table, descriptions,
                   target_schema, target_table>>

Next ==
    \/ \E p \in Procs : copy_field_descriptions(p)
    \/ \E p \in Procs : upload_fields_descriptions_from_csv(p)
    \/ \E p \in Procs : _update_table(p)
    \/ \E p \in Procs : persist(p)

\* the locals of the invocations in P before their first line runs
Fresh(P) ==
    /\ calls = <<>>
    /\ pc = [p \in P |-> "start"]
    /\ source_table = [p \in P |-> <<>>]
    /\ descriptions = [p \in P |-> EmptyDict]
    /\ target_schema = [p \in P |-> <<>>]
    /\ target_table = [p \in P |-> NoTable]
    /\ error = [p \in P |-> None]

\* main(), lines 123-139: copy needs a source table id, upload a csv path.
\* What the chosen mode never reads is absent.
Args(P, src, tgt, files) ==
    /\ mode \in [P -> {"copy", "upload"}]
    /\ source_id \in [P -> {SOURCE, TARGET}]
    /\ \A p \in P : mode[p] = "upload" => source_id[p] = SOURCE
    /\ \E s \in IF \E p \in P : mode[p] = "copy" /\ source_id[p] = SOURCE
                 THEN Tables(src) ELSE {NoTable} :
         \E t \in Tables(tgt) :
            store = [id \in {SOURCE, TARGET} |-> IF id = SOURCE THEN s ELSE t]
    /\ csv \in IF \E p \in P : mode[p] = "upload" THEN files ELSE {NoFile}

\* one invocation
Init ==
    /\ Fresh({1})
    /\ Args({1}, SchemasUpTo(MaxSrcNodes, SourceDescs),
            SchemasUpTo(MaxNodes, TargetDescs), Files(MaxRows))

Spec == Init /\ [][Next]_vars

\* Two invocations on one target, with a source whose fields are all
\* described.  The invocations are interchangeable, so of two mirrored
\* choices of arguments only one is started.
ConcSourceDescs == {"n"}

ArgsRank(p) ==
    IF mode[p] = "upload" THEN 2 ELSE IF source_id[p] = TARGET THEN 1 ELSE 0

InitConc ==
    /\ Fresh({1, 2})
    /\ Args({1, 2}, SchemasUpTo(MaxConcNodes, ConcSourceDescs),
            SchemasUpTo(MaxConcNodes, TargetDescs), Files(MaxConcRows))
    /\ ArgsRank(1) <= ArgsRank(2)

SpecConc == InitConc /\ [][Next]_vars

----------------------------------------------------------------------------
(* What the claims speak of *)

\* every field of a schema, at every depth, with its qualified path
RECURSIVE QualifiedFields(_, _)
QualifiedFields(schema, prefix) ==
    UNION {
      LET path == IF prefix = "" THEN schema[i].name
                  ELSE prefix \o "." \o schema[i].name
      IN  {<<path, schema[i]>>} \cup QualifiedFields(schema[i].fields, path)
      : i \in DOMAIN schema}

Paths(schema) == {e[1] : e \in QualifiedFields(schema, "")}

\* the descriptions of the fields at a path
DescriptionsAt(schema, path) ==
    {e[2].description : e \in {x \in QualifiedFields(schema, "") : x[1] = path}}

RECURSIVE FieldCount(_)
RECURSIVE FieldCountFrom(_, _)
FieldCountFrom(schema, i) ==
    IF i > Len(schema) THEN 0
    ELSE 1 + FieldCount(schema[i].fields) + FieldCountFrom(schema, i + 1)
FieldCount(schema) == FieldCountFrom(schema, 1)

\* a schema with every description erased
RECURSIVE Shape(_)
Shape(schema) ==
    [i \in DOMAIN schema |->
        [name |-> schema[i].name, field_type |-> schema[i].field_type,
         mode |-> schema[i].mode, fields |-> Shape(schema[i].fields)]]

\* M[P] is a non-empty description
Describes(M, path) == path \in DOMAIN M /\ Truthy(M[path])

CallsOf(p) == LET ByP(c) == c.proc = p IN SelectSeq(calls, ByP)

Persists(p) ==
    LET PersistByP(c) == c.proc = p /\ c.op = "update_table"
    IN  SelectSeq(calls, PersistByP)

\* invocation p has computed the new schema of its target (line 44)
Merged(p) == target_table[p].exists

\* invocation p has flattened the schema of its source (line 32)
Flattened(p) ==
    /\ mode[p] = "copy"
    /\ \E i \in DOMAIN calls :
          calls[i].proc = p /\ calls[i].table = source_id[p] /\ calls[i].ok

\* invocation p has read the csv file into its dict (line 100)
Loaded(p) ==
    mode[p] = "upload" /\ pc[p] # "start" /\ csv.exists /\ ~Malformed(csv.rows)

\* C1. Merge overwrite: every field of the target whose qualified path P has
\* a non-empty value in the mapping has description M[P] in the new schema.
C1_MergeOverwrite ==
    \A p \in Procs : Merged(p) =>
        \A path \in Paths(target_schema[p]) :
            Describes(descriptions[p], path) =>
                DescriptionsAt(target_table[p].schema, path) = {descriptions[p][path]}

C1_Witness ==
    \E p \in Procs :
        /\ Merged(p)
        /\ "a.b" \in Paths(target_schema[p])
        /\ Describes(descriptions[p], "a.b")
        /\ DescriptionsAt(target_schema[p], "a.b") = {"o"}
        /\ descriptions[p]["a.b"] = "n"

\* C2. Empty-value no-op: a field of the target whose path is absent from the
\* mapping, or mapped to an empty or None value, keeps the description it had;
\* the merge never clears a description.
C2_EmptyValueNoOp ==
    \A p \in Procs : Merged(p) =>
        \A path \in Paths(target_schema[p]) :
            ~Describes(descriptions[p], path) =>
                DescriptionsAt(target_table[p].schema, path)
                    = DescriptionsAt(target_schema[p], path)

C2_Witness ==
    \E p \in Procs :
        /\ Merged(p)
        /\ "a.b" \in DOMAIN descriptions[p]
        /\ descriptions[p]["a.b"] = ""
        /\ DescriptionsAt(target_schema[p], "a.b") = {"o"}
        /\ DescriptionsAt(target_table[p].schema, "a.b") = {"o"}

\* C3. Shape preservation: the new schema has the fields of the target, in the
\* same order and nesting, with the same name, type and mode; only description
\* can differ.
C3_ShapePreservation ==
    \A p \in Procs : Merged(p) =>
        Shape(target_table[p].schema) = Shape(target_schema[p])

C3_Witness ==
    \E p \in Procs :
        /\ Merged(p)
        /\ FieldCount(target_schema[p]) = 2
        /\ Len(target_schema[p]) = 1
        /\ target_table[p].schema # target_schema[p]

\* C4. Flatten completeness: the flattened mapping of a schema has exactly one
\* entry per field at every depth, keyed by the field's qualified path and
\* valued by its description, and no other key.
C4_FlattenCompleteness ==
    \A p \in Procs : Flattened(p) =>
        /\ DOMAIN descriptions[p] = Paths(source_table[p])
        /\ Cardinality(DOMAIN descriptions[p]) = FieldCount(source_table[p])
        /\ \A e \in QualifiedFields(source_table[p], "") :
              descriptions[p][e[1]] = e[2].description

C4_Witness ==
    \E p \in Procs :
        /\ Flattened(p)
        /\ source_id[p] = SOURCE
        /\ DOMAIN descriptions[p] = {"a", "a.b"}
        /\ descriptions[p]["a"] = None
        /\ descriptions[p]["a.b"] = "n"

\* C5. Partial-overlap tolerance: when no key of the mapping is the path of a
\* field of the target, the merge completes and the new schema equals the
\* target.
C5_NoMatchingPath ==
    \A p \in Procs :
        /\ (pc[p] \in {"persist", "done"} => Merged(p))
        /\ (Merged(p) /\ DOMAIN descriptions[p] \cap Paths(target_schema[p]) = {}
              => target_table[p].schema = target_schema[p])

C5_Witness ==
    \E p \in Procs :
        /\ Merged(p)
        /\ DOMAIN descriptions[p] = {"b", "z"}
        /\ descriptions[p]["b"] = "n"
        /\ Paths(target_schema[p]) = {"a", "a.b"}
        /\ target_table[p].schema = target_schema[p]

\* C6. Copy-mode ordering: a successful copy makes exactly the client calls
\* get_table(source), get_table(target), update_table(target); the last one
\* carries the merged schema and names only the 'schema' attribute.
C6_CopyOrdering ==
    \A p \in Procs : (mode[p] = "copy" /\ pc[p] = "done") =>
        LET mine == CallsOf(p) IN
        /\ Len(mine) = 3
        /\ mine[1].op = "get_table" /\ mine[1].table = source_id[p]
        /\ mine[2].op = "get_table" /\ mine[2].table = TARGET
        /\ mine[3].op = "update_table" /\ mine[3].table = TARGET
        /\ mine[3].fields = <<"schema">>
        /\ mine[3].schema = _get_new_schema(target_schema[p],
                                _get_descriptions_from_schema(source_table[p]))

C6_Witness ==
    \E p \in Procs :
        /\ mode[p] = "copy" /\ pc[p] = "done" /\ source_id[p] = SOURCE
        /\ store[TARGET].schema # target_schema[p]

\* C7. No partial success: when fetching the source, fetching the target or
\* loading the csv rows fails, the invocation ends with that failure and has
\* made no persist call; the stored tables change only in a step that makes a
\* successful persist call; an invocation persists at most once.
C7_Aborts ==
    \A p \in Procs :
        /\ Len(Persists(p)) <= 1
        /\ \A i \in DOMAIN calls :
              (calls[i].proc = p /\ calls[i].op = "get_table" /\ ~calls[i].ok) =>
                  /\ pc[p] = "failed" /\ error[p] = "NotFound"
                  /\ Persists(p) = <<>>
        /\ (mode[p] = "upload" /\ pc[p] # "start" /\ ~csv.exists) =>
              pc[p] = "failed" /\ error[p] = "FileNotFoundError" /\ CallsOf(p) = <<>>
        /\ (mode[p] = "upload" /\ pc[p] # "start" /\ csv.exists /\ Malformed(csv.rows)) =>
              pc[p] = "failed" /\ error[p] = "IndexError" /\ CallsOf(p) = <<>>

C7_StoreChange ==
    store' # store =>
        /\ Len(calls') = Len(calls) + 1
        /\ calls'[Len(calls')].op = "update_table"
        /\ calls'[Len(calls')].ok

C7_NoPartialSuccess == [](C7_Aborts) /\ [][C7_StoreChange]_vars

C7_Witness ==
    \E p \in Procs :
        /\ pc[p] = "failed" /\ error[p] = "NotFound"
        /\ Len(CallsOf(p)) = 2
        /\ descriptions[p] # EmptyDict
        /\ ~store[TARGET].exists

\* C8. Upload-mode header handling: the first row of the csv file is a header
\* and contributes no entry to the mapping.
C8_HeaderDiscarded ==
    \A p \in Procs : (Loaded(p) /\ Merged(p) /\ csv.rows # <<>>) =>
        target_table[p].schema
            = _get_new_schema(target_schema[p], DictOfRows(Tail(csv.rows)))

\* C9. Last write wins: the stored target schema is the one of the last
\* successful persist call, computed from the target as that invocation
\* fetched it.
SuccessfulPersists ==
    LET Succeeded(c) == c.op = "update_table" /\ c.ok IN SelectSeq(calls, Succeeded)

C9_LastWriteWins ==
    SuccessfulPersists # <<>> =>
        LET last == SuccessfulPersists[Len(SuccessfulPersists)].proc
        IN  store[TARGET].schema
                = _get_new_schema(target_schema[last], descriptions[last])

\* p persisted a description that q, having fetched the target before, wiped
C9_LostUpdate ==
    \E p, q \in Procs :
        /\ p # q /\ pc[p] = "done" /\ pc[q] = "done"
        /\ Len(SuccessfulPersists) = 2
        /\ SuccessfulPersists[1].proc = p /\ SuccessfulPersists[2].proc = q
        /\ \E path \in Paths(target_schema[p]) :
              /\ Describes(descriptions[p], path)
              /\ ~Describes(descriptions[q], path)
              /\ DescriptionsAt(target_table[p].schema, path) = {descriptions[p][path]}
              /\ DescriptionsAt(store[TARGET].schema, path) # {descriptions[p][path]}

\* C10. Self-copy and idempotence: merging a schema with its own flattened
\* descriptions yields the schema, and merging twice with one mapping equals
\* merging once.
WellNamed(schema) ==
    Cardinality(Paths(schema)) = FieldCount(schema)

C10_SelfCopyIdempotent ==
    /\ WellNamed(store[TARGET].schema) =>
          _get_new_schema(store[TARGET].schema,
                          _get_descriptions_from_schema(store[TARGET].schema))
              = store[TARGET].schema
    /\ \A p \in Procs : Merged(p) =>
          /\ _get_new_schema(target_table[p].schema, descriptions[p])
                = target_table[p].schema
          /\ (mode[p] = "copy" /\ source_table[p] = target_schema[p]
                /\ WellNamed(target_schema[p])
                => target_table[p].schema = target_schema[p])

C10_Witness ==
    \E p \in Procs :
        /\ pc[p] = "done" /\ mode[p] = "copy" /\ source_id[p] = TARGET
        /\ FieldCount(target_schema[p]) = 2
        /\ DescriptionsAt(target_schema[p], "a.b") = {"o"}
        /\ store[TARGET].schema = target_schema[p]

====
